---------------------------- MODULE Spec2Model ----------------------------
(***************************************************************************)
(* Twinkly client (ttls): the session/authentication lifecycle of class    *)
(* Twinkly, its device operations, the realtime frame transport            *)
(* (send_frame) and the command line of main().                            *)
(*                                                                         *)
(* One client instance is shared by the callers that have a menu.  A caller *)
(* runs one public operation at a time; an operation is executed in steps  *)
(* (one step per statement that reads or writes the client's fields or     *)
(* touches the network), the clock may advance between any two steps, and  *)
(* the device answers every request with a success or a failure.           *)
(***************************************************************************)
EXTENDS Integers, Sequences, FiniteSets, TLC

(***************************************************************************)
(* Bounds of the model.                                                    *)
(***************************************************************************)
MaxTime == 2            \* the clock runs over 0..MaxTime
MaxTTL == 1             \* authentication_token_expires_in is in 0..MaxTTL
MaxTokens == 2          \* the device issues at most MaxTokens tokens
MaxLeds == 2            \* number_of_led is in 1..MaxLeds
RecursionLimit == 1     \* nested ensure_token calls before RecursionError

(***************************************************************************)
(* Program constants.                                                      *)
(***************************************************************************)
rt_port == 7777         \* self.rt_port
NoExpiry == -1          \* self.expires = None
NoToken == 0            \* self._token = None
NoLength == 0           \* self._length = None
NoHeader == 0           \* session.headers has no X-Auth-Token
FRAME_MARK == 1         \* bytes([0x01])
ByteMax == 255          \* largest value bytes([...]) accepts

Threads == {1, 2}
TTLs == 0..MaxTTL
BigLeds == ByteMax + 1  \* an LED count that does not fit the count byte
LedCounts == (1..MaxLeds) \cup {BigLeds}
TWINKLY_MODES == {"rt", "movie", "off", "demo", "effect"}

(***************************************************************************)
(* base64: the alphabet and base64.b64decode on text made of whole quads.  *)
(***************************************************************************)
B64Alphabet ==
  << "A","B","C","D","E","F","G","H","I","J","K","L","M","N","O","P",
     "Q","R","S","T","U","V","W","X","Y","Z","a","b","c","d","e","f",
     "g","h","i","j","k","l","m","n","o","p","q","r","s","t","u","v",
     "w","x","y","z","0","1","2","3","4","5","6","7","8","9","+","/" >>

B64Index(ch) == (CHOOSE i \in 1..64 : B64Alphabet[i] = ch) - 1

B64Sextet(ch) == IF ch = "=" THEN 0 ELSE B64Index(ch)

B64Pad(q) == IF q[3] = "=" THEN 2 ELSE IF q[4] = "=" THEN 1 ELSE 0

B64DecodeQuad(q) ==
  LET n == B64Sextet(q[1]) * 262144 + B64Sextet(q[2]) * 4096
           + B64Sextet(q[3]) * 64 + B64Sextet(q[4])
      b == << n \div 65536, (n \div 256) % 256, n % 256 >>
  IN  SubSeq(b, 1, 3 - B64Pad(q))

RECURSIVE b64decode(_)
b64decode(s) ==
  IF Len(s) = 0 THEN << >>
  ELSE B64DecodeQuad(SubSeq(s, 1, 4)) \o b64decode(SubSeq(s, 5, Len(s)))

(***************************************************************************)
(* The text of the i-th token the device issues (r['authentication_token'])*)
(* : base64 text of one quad, with 0, 1 or 2 padding characters, so that    *)
(* decoded tokens of 3, 2 and 1 bytes all occur.                            *)
(***************************************************************************)
TokenText(i) ==
  LET c1 == B64Alphabet[(i % 64) + 1]
      c2 == B64Alphabet[((7 * i) % 64) + 1]
      c3 == B64Alphabet[((11 * i) % 64) + 1]
      c4 == B64Alphabet[((13 * i) % 64) + 1]
  IN  CASE i % 3 = 1 -> << c1, c2, c3, c4 >>
        [] i % 3 = 2 -> << c1, c2, c3, "=" >>
        [] OTHER     -> << c1, c2, "=", "=" >>

(***************************************************************************)
(* Frames (TWINKLY_FRAME): sequences of colour triples.                    *)
(***************************************************************************)
FrameOf(n) == [i \in 1..n |-> << i % 256, (3 * i + 100) % 256, 255 - (i % 256) >>]
Frames == { FrameOf(n) : n \in (0..(MaxLeds + 1)) \cup {BigLeds} }
MovieLens == {0, 3 * MaxLeds - 1, 3 * MaxLeds, 3 * MaxLeds + 1}


(* The division by 3 left out.                                             *)
FramesNumberNoTriple(len, length) == len \div length

(***************************************************************************)
(* main(): frames_number = int(len(movie) / 3 / t.length).  For the buffer  *)
(* lengths and LED counts of the model the float quotient is exact enough   *)
(* that int() yields the floor of len / (3 * length).                       *)
(***************************************************************************)
FramesNumber(len, length) == (len \div 3) \div length

(***************************************************************************)
(* send_frame: payload = []; for x in frame: payload.extend(list(x)).       *)
(***************************************************************************)
(* The k-th element appended is component ((k - 1) % 3) + 1 of triple        *)
(* ((k - 1) \div 3) + 1.                                                    *)
Payload(f) ==
  [k \in 1..(3 * Len(f)) |-> f[((k - 1) \div 3) + 1][((k - 1) % 3) + 1]]

(* bytes() that accepts any integer.                                       *)
BytesAny(s) == TRUE

(* bytes(list) raises ValueError unless every element is in range(256).    *)
BytesOk(s) == \A i \in 1..Len(s) : s[i] \in 0..ByteMax

HeaderNoCount(tok, length) == << FRAME_MARK >> \o b64decode(TokenText(tok))

Header(tok, length) == << FRAME_MARK >> \o b64decode(TokenText(tok)) \o << length >>

(***************************************************************************)
(* Device operations of class Twinkly that are one _get or one _post.      *)
(***************************************************************************)
DeviceOps ==
  { "get_name", "set_name", "reset", "get_network_status",
    "get_firmware_version", "get_details", "get_mode", "set_mode",
    "get_mqtt", "set_mqtt", "get_movie_config", "set_movie_config",
    "upload_movie" }

Endpoint(o) ==
  CASE o \in {"get_name", "set_name"} -> "device_name"
    [] o = "reset" -> "reset"
    [] o = "get_network_status" -> "network/status"
    [] o = "get_firmware_version" -> "fw/version"
    [] o = "get_details" -> "gestalt"
    [] o \in {"get_mode", "set_mode"} -> "led/mode"
    [] o \in {"get_mqtt", "set_mqtt"} -> "mqtt/config"
    [] o \in {"get_movie_config", "set_movie_config"} -> "led/movie/config"
    [] o = "upload_movie" -> "led/movie/full"
    [] o = "logout" -> "logout"

(***************************************************************************)
(* The command line: the subcommands the parser knows ("" when none is      *)
(* given: args.command is None) and the commands that take an option        *)
(* (--name, --mode, --json, --file).                                        *)
(***************************************************************************)
Subcommands ==
  { "network", "firmware", "details", "token", "name", "mode", "mqtt", "movie" }

WithOption == { "name", "mode", "mqtt", "movie" }

MainArgs ==
  { a \in [command : Subcommands \cup {""}, option : BOOLEAN] :
      a.option => a.command \in WithOption }

AllOps == DeviceOps \cup
  { "ensure_token", "token", "login", "logout", "length", "send_frame", "main" }

AuthKinds == {"login", "verify"}

(***************************************************************************)
(* State.                                                                  *)
(***************************************************************************)
VARIABLES
  now,        \* time.time()
  expires,    \* self.expires (NoExpiry = None)
  _token,     \* self._token (NoToken = None), the number of the token issued
  header,     \* self.session.headers['X-Auth-Token'] (NoHeader = not set)
  _length,    \* self._length (NoLength = None)
  issued,     \* device: how many tokens it has issued
  rejected,   \* device: the tokens whose /verify request it has refused
  wire,       \* wire[c]: the request of caller c in flight (the HTTP request
              \* awaiting its response, or the datagram just sent)
  datagram,   \* datagram[c]: bytes and destination port of the datagram sent
  menu,       \* menu[c]: the operations caller c may invoke on the client
  pc,         \* where caller c stands in its operation
  op,         \* the public operation caller c is running
  cmd,        \* main(): args (the command, and whether its option is given)
  phase,      \* which request of a multi-request operation is under way
  depth,      \* how many verify_login calls of caller c await ensure_token
  req,        \* endpoint of the _get/_post under way
  r,          \* login(): r = response.json()
  frame,      \* send_frame(frame)
  movie,      \* main(): len(movie), NoFile when --file is absent
  ret,        \* the value returned (token, length)
  result,     \* how the operation ended: "ok" or the exception raised
  trace,      \* the requests the operation has sent so far, in order
  at0,        \* the client's fields when the operation started
  params      \* main(): params of the movie command

clientVars == << expires, _token, header, _length >>
deviceVars == << issued, rejected >>
netVars == << wire, datagram, trace >>
argVars == << op, cmd, frame, movie, at0 >>
contVars == << pc, phase, req, ret, result, params >>
vars == << now, menu, clientVars, deviceVars, netVars, argVars, contVars, depth, r >>

NoFile == -1
NoWire == [kind |-> "none", ep |-> "", tok |-> NoHeader, valid |-> FALSE]
NoDatagram == [bytes |-> << >>, port |-> 0]
NoResponse == [tok |-> NoToken, ttl |-> 0]
NoParams == [leds_number |-> 0, frames_number |-> 0]
NoArgs == [command |-> "", option |-> FALSE]
MissingTTL == -1

Upd(f, c, v) == [f EXCEPT ![c] = v]

Snapshot ==
  [expires |-> expires, token |-> _token, header |-> header, length |-> _length,
   stale |-> (expires = NoExpiry \/ expires <= now)]

(* The comparison of ensure_token with < in place of <=.                   *)
ExpiredStrict(e, t) == e = NoExpiry \/ e < t

(* ensure_token: self.expires is None or self.expires <= time.time()       *)
Expired(e, t) == e = NoExpiry \/ e <= t

(* A request as it leaves: its kind, its endpoint, the token it carries and *)
(* whether the stored expiry is after the clock at that instant.            *)
Message(kind, ep, tok) ==
  [kind |-> kind, ep |-> ep, tok |-> tok,
   valid |-> (expires # NoExpiry /\ expires > now)]

Send(c, kind, ep, tok) ==
  /\ wire' = Upd(wire, c, Message(kind, ep, tok))
  /\ trace' = Upd(trace, c, Append(trace[c], IF kind = "http" THEN ep ELSE kind))

InitWith(m) ==
  /\ now = 0
  /\ expires = NoExpiry
  /\ _token = NoToken
  /\ header = NoHeader
  /\ _length = NoLength
  /\ issued = 0
  /\ rejected = {}
  /\ wire = [c \in Threads |-> NoWire]
  /\ datagram = [c \in Threads |-> NoDatagram]
  /\ menu = m
  /\ pc = [c \in Threads |-> "idle"]
  /\ op = [c \in Threads |-> "none"]
  /\ cmd = [c \in Threads |-> NoArgs]
  /\ phase = [c \in Threads |-> ""]
  /\ depth = [c \in Threads |-> 0]
  /\ req = [c \in Threads |-> ""]
  /\ r = [c \in Threads |-> NoResponse]
  /\ frame = [c \in Threads |-> << >>]
  /\ movie = [c \in Threads |-> NoFile]
  /\ ret = [c \in Threads |-> 0]
  /\ result = [c \in Threads |-> "none"]
  /\ trace = [c \in Threads |-> << >>]
  /\ at0 = [c \in Threads |-> Snapshot]
  /\ params = [c \in Threads |-> NoParams]


(***************************************************************************)
(* Continuations: where a caller goes next.  Each fixes contVars'.         *)
(***************************************************************************)
Cont(c, p, ph, ep) ==
  /\ pc' = Upd(pc, c, p)
  /\ phase' = Upd(phase, c, ph)
  /\ req' = Upd(req, c, ep)
  /\ UNCHANGED << ret, result, params >>

(* The operation returns v (res = "ok") or raises res.                     *)
Fin(c, res, v) ==
  /\ pc' = Upd(pc, c, "done")
  /\ result' = Upd(result, c, res)
  /\ ret' = Upd(ret, c, v)
  /\ UNCHANGED << phase, req, params >>

(* _get / _post: the first statement is self.ensure_token().               *)
BeginRequest(c, ph, ep) == Cont(c, "check", ph, ep)

(***************************************************************************)
(* The value L of self.length is known.  send_frame compares it with       *)
(* len(frame); main() builds params and goes on to t.mode = 'movie'.       *)
(***************************************************************************)
FrameRejectedShort(f, L) == Len(f) < L

FrameRejected(f, L) == Len(f) # L

(* main() without t.mode = 'movie'.                                        *)
AfterLengthNoMode(c, L) ==
  CASE op[c] = "length" -> Fin(c, "ok", L)
    [] op[c] = "send_frame" ->
         IF FrameRejected(frame[c], L)
         THEN Fin(c, "ValueError", ret[c])
         ELSE Cont(c, "check", "token", "")
    [] op[c] = "main" ->
         /\ pc' = Upd(pc, c, "check")
         /\ phase' = Upd(phase, c, "config")
         /\ req' = Upd(req, c, "led/movie/config")
         /\ params' = Upd(params, c, [leds_number |-> L,
                                      frames_number |-> FramesNumber(movie[c], L)])
         /\ UNCHANGED << ret, result >>

AfterLength(c, L) ==
  CASE op[c] = "length" -> Fin(c, "ok", L)
    [] op[c] = "send_frame" ->
         IF FrameRejected(frame[c], L)
         THEN Fin(c, "ValueError", ret[c])
         ELSE Cont(c, "check", "token", "")
    [] op[c] = "main" ->
         /\ pc' = Upd(pc, c, "check")
         /\ phase' = Upd(phase, c, "mode")
         /\ req' = Upd(req, c, "led/mode")
         /\ params' = Upd(params, c, [leds_number |-> L,
                                      frames_number |-> FramesNumber(movie[c], L)])
         /\ UNCHANGED << ret, result >>

(* The length property: fetch the details when self._length is None.       *)
EvalLength(c) ==
  IF _length = NoLength
  THEN BeginRequest(c, "length", "gestalt")
  ELSE AfterLength(c, _length)

(***************************************************************************)
(* main(): the dispatch on args.command, after t = Twinkly(host).  The     *)
(* chain of comparisons has no branch for 'token'; the mqtt branch with     *)
(* --json evaluates args.mode, which the namespace of the mqtt command does *)
(* not have (AttributeError), before it could call set_mqtt.                *)
(***************************************************************************)
MainDispatch(c) ==
  CASE cmd[c].command = "name" -> BeginRequest(c, "req", "device_name")
    [] cmd[c].command = "network" -> BeginRequest(c, "req", "network/status")
    [] cmd[c].command = "firmware" -> BeginRequest(c, "req", "fw/version")
    [] cmd[c].command = "details" -> BeginRequest(c, "req", "gestalt")
    [] cmd[c].command = "mode" -> BeginRequest(c, "req", "led/mode")
    [] cmd[c].command = "mqtt" ->
         IF cmd[c].option
         THEN Fin(c, "AttributeError", ret[c])
         ELSE BeginRequest(c, "req", "mqtt/config")
    [] cmd[c].command = "movie" ->
         IF movie[c] # NoFile
         THEN EvalLength(c)
         ELSE BeginRequest(c, "req", "led/movie/config")
    [] OTHER -> Fin(c, "Unknown command", ret[c])

(***************************************************************************)
(* The outermost ensure_token of the operation has returned.               *)
(***************************************************************************)
AfterEnsure(c) ==
  CASE op[c] = "ensure_token" -> Fin(c, "ok", ret[c])
    [] op[c] = "token" -> Fin(c, "ok", _token)
    [] op[c] = "send_frame" /\ phase[c] = "token" ->
         IF _token = NoToken
         THEN Fin(c, "TypeError", ret[c])
         ELSE /\ pc' = Upd(pc, c, "sendto")
              /\ ret' = Upd(ret, c, _token)
              /\ UNCHANGED << phase, req, result, params >>
    [] op[c] = "main" /\ phase[c] = "ctor" -> MainDispatch(c)
    [] OTHER -> Cont(c, "send", phase[c], req[c])

(* ensure_token returns: to the _post of a verify_login, or to the caller. *)
ReturnFromEnsure(c, d) ==
  IF d > 0 THEN Cont(c, "verify", phase[c], req[c]) ELSE AfterEnsure(c)

(* The length property without the assignment to self._length.             *)
AfterHttpNoCache(c, n) ==
  CASE phase[c] = "length" ->
         /\ AfterLength(c, n)
         /\ UNCHANGED << _token, _length >>
    [] op[c] = "logout" ->
         /\ _token' = NoToken
         /\ Fin(c, "ok", ret[c])
         /\ UNCHANGED _length
    [] op[c] = "main" /\ phase[c] = "mode" ->
         /\ BeginRequest(c, "config", "led/movie/config")
         /\ UNCHANGED << _token, _length >>
    [] op[c] = "main" /\ phase[c] = "config" ->
         /\ BeginRequest(c, "upload", "led/movie/full")
         /\ UNCHANGED << _token, _length >>
    [] phase[c] # "length" /\ op[c] = "get_details" ->
         /\ Fin(c, "ok", n)
         /\ UNCHANGED << _token, _length >>
    [] OTHER ->
         /\ Fin(c, "ok", ret[c])
         /\ UNCHANGED << _token, _length >>

(***************************************************************************)
(* The response to the _get/_post of the operation passed raise_for_status.*)
(* n is number_of_led of the response.                                     *)
(***************************************************************************)
AfterHttp(c, n) ==
  CASE phase[c] = "length" ->
         /\ _length' = n
         /\ AfterLength(c, n)
         /\ UNCHANGED _token
    [] op[c] = "logout" ->
         /\ _token' = NoToken
         /\ Fin(c, "ok", ret[c])
         /\ UNCHANGED _length
    [] op[c] = "main" /\ phase[c] = "mode" ->
         /\ BeginRequest(c, "config", "led/movie/config")
         /\ UNCHANGED << _token, _length >>
    [] op[c] = "main" /\ phase[c] = "config" ->
         /\ BeginRequest(c, "upload", "led/movie/full")
         /\ UNCHANGED << _token, _length >>
    [] phase[c] # "length" /\ op[c] = "get_details" ->
         /\ Fin(c, "ok", n)
         /\ UNCHANGED << _token, _length >>
    [] OTHER ->
         /\ Fin(c, "ok", ret[c])
         /\ UNCHANGED << _token, _length >>

(***************************************************************************)
(* Starting an operation.                                                  *)
(***************************************************************************)
Begin(c, o) ==
  /\ pc[c] = "idle"
  /\ o \in menu[c]
  /\ op' = Upd(op, c, o)
  /\ at0' = Upd(at0, c, Snapshot)

StartEnsureToken(c) ==
  /\ Begin(c, "ensure_token")
  /\ Cont(c, "check", "", "")
  /\ UNCHANGED << now, menu, clientVars, deviceVars, netVars, cmd, frame, movie, depth, r >>

StartToken(c) ==
  /\ Begin(c, "token")
  /\ Cont(c, "check", "", "")
  /\ UNCHANGED << now, menu, clientVars, deviceVars, netVars, cmd, frame, movie, depth, r >>

StartLogin(c) ==
  /\ Begin(c, "login")
  /\ Cont(c, "login", "", "")
  /\ UNCHANGED << now, menu, clientVars, deviceVars, netVars, cmd, frame, movie, depth, r >>

StartLogout(c) ==
  /\ Begin(c, "logout")
  /\ BeginRequest(c, "req", "logout")
  /\ UNCHANGED << now, menu, clientVars, deviceVars, netVars, cmd, frame, movie, depth, r >>

StartDeviceOp(c) ==
  \E o \in DeviceOps :
    /\ Begin(c, o)
    /\ BeginRequest(c, "req", Endpoint(o))
    /\ UNCHANGED << now, menu, clientVars, deviceVars, netVars, cmd, frame, movie, depth, r >>

StartLength(c) ==
  /\ Begin(c, "length")
  /\ IF _length = NoLength
     THEN BeginRequest(c, "length", "gestalt")
     ELSE Fin(c, "ok", _length)
  /\ UNCHANGED << now, menu, clientVars, deviceVars, netVars, cmd, frame, movie, depth, r >>

(* send_frame: len(frame) != self.length is evaluated first.               *)
StartSendFrame(c) ==
  \E f \in Frames :
    /\ Begin(c, "send_frame")
    /\ frame' = Upd(frame, c, f)
    /\ IF _length = NoLength
       THEN BeginRequest(c, "length", "gestalt")
       ELSE IF FrameRejected(f, _length)
            THEN Fin(c, "ValueError", ret[c])
            ELSE Cont(c, "check", "token", "")
    /\ UNCHANGED << now, menu, clientVars, deviceVars, netVars, cmd, movie, depth, r >>

(***************************************************************************)
(* main(): args = parser.parse_args(), then t = Twinkly(host), a new client *)
(* (its fields are None, its session has no header) whose constructor calls *)
(* ensure_token.  No other caller holds the new client.                     *)
(***************************************************************************)
StartMain(c) ==
  \E a \in MainArgs, m \in MovieLens \cup {NoFile} :
    /\ (m # NoFile) <=> (a.command = "movie" /\ a.option)
    /\ \A d \in Threads \ {c} : pc[d] = "idle"
    /\ pc[c] = "idle"
    /\ "main" \in menu[c]
    /\ op' = Upd(op, c, "main")
    /\ cmd' = Upd(cmd, c, a)
    /\ movie' = Upd(movie, c, m)
    /\ expires' = NoExpiry
    /\ _token' = NoToken
    /\ _length' = NoLength
    /\ header' = NoHeader
    /\ at0' = Upd(at0, c, [expires |-> NoExpiry, token |-> NoToken,
                           header |-> NoHeader, length |-> NoLength,
                           stale |-> TRUE])
    /\ Cont(c, "check", "ctor", "")
    /\ UNCHANGED << now, menu, deviceVars, netVars, frame, depth, r >>

(***************************************************************************)
(* ensure_token                                                            *)
(***************************************************************************)
(* The comparison of ensure_token written the other way round.             *)
NeedsRenewalReversed == expires = NoExpiry \/ expires >= now

NeedsRenewal == Expired(expires, now)

Check(c) ==
  /\ pc[c] = "check"
  /\ IF NeedsRenewal
     THEN Cont(c, "login", phase[c], req[c])
     ELSE ReturnFromEnsure(c, depth[c])
  /\ UNCHANGED << now, menu, clientVars, deviceVars, netVars, argVars, depth, r >>

(***************************************************************************)
(* login                                                                   *)
(***************************************************************************)
LoginSend(c) ==
  /\ pc[c] = "login"
  /\ Send(c, "login", "login", header)
  /\ Cont(c, "loginWait", phase[c], req[c])
  /\ UNCHANGED << now, menu, clientVars, deviceVars, datagram, argVars, depth, r >>

(* The response: raise_for_status, r = response.json().  A body without    *)
(* authentication_token raises KeyError at once; one without                *)
(* authentication_token_expires_in raises it at the last statement.         *)
LoginFailedRetry(c, e) == Cont(c, "login", phase[c], req[c])

LoginFailed(c, e) == Fin(c, e, ret[c])

LoginRecv(c) ==
  /\ pc[c] = "loginWait"
  /\ wire' = Upd(wire, c, NoWire)
  /\ \/ /\ issued < MaxTokens
        /\ \E ttl \in TTLs \cup {MissingTTL} :
             r' = Upd(r, c, [tok |-> issued + 1, ttl |-> ttl])
        /\ issued' = issued + 1
        /\ Cont(c, "store", phase[c], req[c])
     \/ /\ LoginFailed(c, "HTTPError")
        /\ UNCHANGED << issued, r >>
     \/ /\ LoginFailed(c, "KeyError")
        /\ UNCHANGED << issued, r >>
  /\ UNCHANGED << now, menu, clientVars, rejected, datagram, trace, argVars, depth >>

(***************************************************************************)
(* login, after r = response.json():                                       *)
(*   self._token = r['authentication_token']                               *)
(*   self.session.headers['X-Auth-Token'] = self._token                    *)
(*   self.expires = time.time() + r['authentication_token_expires_in']     *)
(* The last statement raises KeyError when the field is missing, after the *)
(* first two have run.  Then, in ensure_token, verify_login -> _post ->     *)
(* ensure_token, one level deeper; the interpreter raises RecursionError at *)
(* its recursion limit.                                                     *)
(***************************************************************************)
NewExpiry(t, ttl) == t + ttl

LoginStore(c) ==
  /\ pc[c] = "store"
  /\ _token' = r[c].tok
  /\ header' = r[c].tok
  /\ IF r[c].ttl = MissingTTL
     THEN /\ Fin(c, "KeyError", ret[c])
          /\ UNCHANGED << expires, depth >>
     ELSE /\ expires' = NewExpiry(now, r[c].ttl)
          /\ IF op[c] = "login"
             THEN Fin(c, "ok", ret[c]) /\ UNCHANGED depth
             ELSE IF depth[c] >= RecursionLimit
                  THEN Fin(c, "RecursionError", ret[c]) /\ UNCHANGED depth
                  ELSE /\ Cont(c, "check", phase[c], req[c])
                       /\ depth' = Upd(depth, c, depth[c] + 1)
  /\ UNCHANGED << now, menu, _length, deviceVars, netVars, argVars, r >>

(***************************************************************************)
(* verify_login                                                            *)
(***************************************************************************)
VerifySend(c) ==
  /\ pc[c] = "verify"
  /\ Send(c, "verify", "verify", header)
  /\ Cont(c, "verifyWait", phase[c], req[c])
  /\ UNCHANGED << now, menu, clientVars, deviceVars, datagram, argVars, depth, r >>

VerifyRecv(c) ==
  /\ pc[c] = "verifyWait"
  /\ wire' = Upd(wire, c, NoWire)
  /\ \/ /\ depth' = Upd(depth, c, depth[c] - 1)
        /\ ReturnFromEnsure(c, depth[c] - 1)
        /\ UNCHANGED rejected
     \/ /\ rejected' = rejected \cup {wire[c].tok}
        /\ Fin(c, "HTTPError", ret[c])
        /\ UNCHANGED depth
  /\ UNCHANGED << now, menu, clientVars, issued, datagram, trace, argVars, r >>

(***************************************************************************)
(* The request of a _get/_post, and its response.                          *)
(***************************************************************************)
HttpSend(c) ==
  /\ pc[c] = "send"
  /\ Send(c, "http", req[c], header)
  /\ Cont(c, "wait", phase[c], req[c])
  /\ UNCHANGED << now, menu, clientVars, deviceVars, datagram, argVars, depth, r >>

(* A failed request sent again.                                            *)
HttpRecvRetry(c) ==
  /\ pc[c] = "wait"
  /\ wire' = Upd(wire, c, NoWire)
  /\ \/ \E n \in LedCounts :
          /\ (req[c] # "gestalt" => n = 1)
          /\ AfterHttp(c, n)
     \/ /\ Cont(c, "send", phase[c], req[c])
        /\ UNCHANGED << _token, _length >>
  /\ UNCHANGED << now, menu, expires, header, deviceVars, datagram, trace, argVars, depth, r >>

HttpRecv(c) ==
  /\ pc[c] = "wait"
  /\ wire' = Upd(wire, c, NoWire)
  /\ \/ \E n \in LedCounts :
          /\ (req[c] # "gestalt" => n = 1)
          /\ AfterHttp(c, n)
     \/ /\ Fin(c, "HTTPError", ret[c])
        /\ UNCHANGED << _token, _length >>
  /\ UNCHANGED << now, menu, expires, header, deviceVars, datagram, trace, argVars, depth, r >>

(***************************************************************************)
(* send_frame: header, payload, self.socket.sendto.                        *)
(***************************************************************************)
Datagram(tok, length, f) == Header(tok, length) \o Payload(f)

UdpSend(c) ==
  /\ pc[c] = "sendto"
  /\ IF BytesOk(<< _length >>) /\ BytesOk(Payload(frame[c]))
     THEN /\ datagram' = Upd(datagram, c, [bytes |-> Datagram(ret[c], _length, frame[c]),
                                           port |-> rt_port])
          /\ Send(c, "udp", "", ret[c])
          /\ Fin(c, "ok", ret[c])
     ELSE /\ Fin(c, "ValueError", ret[c])
          /\ UNCHANGED << wire, datagram, trace >>
  /\ UNCHANGED << now, menu, clientVars, deviceVars, argVars, depth, r >>

(***************************************************************************)
(* The operation has returned or raised; the caller goes on.               *)
(***************************************************************************)
Return(c) ==
  /\ pc[c] = "done"
  /\ pc' = Upd(pc, c, "idle")
  /\ op' = Upd(op, c, "none")
  /\ cmd' = Upd(cmd, c, NoArgs)
  /\ phase' = Upd(phase, c, "")
  /\ depth' = Upd(depth, c, 0)
  /\ req' = Upd(req, c, "")
  /\ r' = Upd(r, c, NoResponse)
  /\ frame' = Upd(frame, c, << >>)
  /\ movie' = Upd(movie, c, NoFile)
  /\ ret' = Upd(ret, c, 0)
  /\ result' = Upd(result, c, "none")
  /\ trace' = Upd(trace, c, << >>)
  /\ at0' = Upd(at0, c, Snapshot)
  /\ params' = Upd(params, c, NoParams)
  /\ wire' = Upd(wire, c, NoWire)
  /\ datagram' = Upd(datagram, c, NoDatagram)
  /\ UNCHANGED << now, menu, clientVars, deviceVars >>

Tick ==
  /\ now < MaxTime
  /\ now' = now + 1
  /\ UNCHANGED << menu, clientVars, deviceVars, netVars, argVars, contVars, depth, r >>

Next ==
  \/ Tick
  \/ \E c \in Threads : StartEnsureToken(c)
  \/ \E c \in Threads : StartToken(c)
  \/ \E c \in Threads : StartLogin(c)
  \/ \E c \in Threads : StartLogout(c)
  \/ \E c \in Threads : StartDeviceOp(c)
  \/ \E c \in Threads : StartLength(c)
  \/ \E c \in Threads : StartSendFrame(c)
  \/ \E c \in Threads : StartMain(c)
  \/ \E c \in Threads : Check(c)
  \/ \E c \in Threads : LoginSend(c)
  \/ \E c \in Threads : LoginRecv(c)
  \/ \E c \in Threads : LoginStore(c)
  \/ \E c \in Threads : VerifySend(c)
  \/ \E c \in Threads : VerifyRecv(c)
  \/ \E c \in Threads : HttpSend(c)
  \/ \E c \in Threads : HttpRecv(c)
  \/ \E c \in Threads : UdpSend(c)
  \/ \E c \in Threads : Return(c)

(* The methods of class Twinkly, without main().                           *)
NextClient ==
  \/ Tick
  \/ \E c \in Threads : StartEnsureToken(c)
  \/ \E c \in Threads : StartToken(c)
  \/ \E c \in Threads : StartLogin(c)
  \/ \E c \in Threads : StartLogout(c)
  \/ \E c \in Threads : StartDeviceOp(c)
  \/ \E c \in Threads : StartLength(c)
  \/ \E c \in Threads : StartSendFrame(c)
  \/ \E c \in Threads : Check(c)
  \/ \E c \in Threads : LoginSend(c)
  \/ \E c \in Threads : LoginRecv(c)
  \/ \E c \in Threads : LoginStore(c)
  \/ \E c \in Threads : VerifySend(c)
  \/ \E c \in Threads : VerifyRecv(c)
  \/ \E c \in Threads : HttpSend(c)
  \/ \E c \in Threads : HttpRecv(c)
  \/ \E c \in Threads : UdpSend(c)
  \/ \E c \in Threads : Return(c)

(* main() run again and again, each run with its own client.               *)
NextMain ==
  \/ Tick
  \/ \E c \in Threads : StartMain(c)
  \/ \E c \in Threads : Check(c)
  \/ \E c \in Threads : LoginSend(c)
  \/ \E c \in Threads : LoginRecv(c)
  \/ \E c \in Threads : LoginStore(c)
  \/ \E c \in Threads : VerifySend(c)
  \/ \E c \in Threads : VerifyRecv(c)
  \/ \E c \in Threads : HttpSend(c)
  \/ \E c \in Threads : HttpRecv(c)
  \/ \E c \in Threads : Return(c)

(* The session part of Next: ensure_token, the token accessor, the device  *)
(* operations, and the steps they are made of.                             *)
NextSession ==
  \/ Tick
  \/ \E c \in Threads : StartEnsureToken(c)
  \/ \E c \in Threads : StartToken(c)
  \/ \E c \in Threads : StartDeviceOp(c)
  \/ \E c \in Threads : Check(c)
  \/ \E c \in Threads : LoginSend(c)
  \/ \E c \in Threads : LoginRecv(c)
  \/ \E c \in Threads : LoginStore(c)
  \/ \E c \in Threads : VerifySend(c)
  \/ \E c \in Threads : VerifyRecv(c)
  \/ \E c \in Threads : HttpSend(c)
  \/ \E c \in Threads : HttpRecv(c)
  \/ \E c \in Threads : Return(c)

(* A caller inside an operation takes its next step: the calls block, and  *)
(* the device answers every request (with a success or with an error).     *)
Progress ==
  \E c \in Threads :
    \/ Check(c)
    \/ LoginSend(c)
    \/ LoginRecv(c)
    \/ LoginStore(c)
    \/ VerifySend(c)
    \/ VerifyRecv(c)
    \/ HttpSend(c)
    \/ HttpRecv(c)

(***************************************************************************)
(* Specifications.                                                         *)
(*   Spec      one caller and every operation: the client as it is written *)
(*             to be used (synchronous, one operation at a time).          *)
(*   SpecClient  one caller and the methods of the class.                   *)
(*   SpecMain    one caller that runs the command line.                     *)
(*   SpecConc  two callers share the client and call ensure_token or a     *)
(*             device operation.                                           *)
(*   FairSpec  one caller, the session operations, and progress of the     *)
(*             caller's blocking calls.                                    *)
(***************************************************************************)
SessionOps == {"ensure_token", "token", "get_name"}

Init == InitWith([c \in Threads |-> IF c = 1 THEN AllOps ELSE {}])

InitConc ==
  InitWith([c \in Threads |-> IF c = 1 THEN {"ensure_token", "get_name"}
                                ELSE {"ensure_token", "token"}])

InitClient == InitWith([c \in Threads |-> IF c = 1 THEN AllOps \ {"main"} ELSE {}])

InitMain == InitWith([c \in Threads |-> IF c = 1 THEN {"main"} ELSE {}])

InitSession == InitWith([c \in Threads |-> IF c = 1 THEN SessionOps ELSE {}])

Spec == Init /\ [][Next]_vars

SpecClient == InitClient /\ [][NextClient]_vars

SpecMain == InitMain /\ [][NextMain]_vars

SpecConc == InitConc /\ [][NextSession]_vars

FairSpec == InitSession /\ [][NextSession]_vars /\ WF_vars(Progress)

(***************************************************************************)
(* Reading a trace.                                                        *)
(***************************************************************************)
Kinds(t) == { t[i] : i \in 1..Len(t) }

IsPrefix(a, b) == Len(a) <= Len(b) /\ a = SubSeq(b, 1, Len(a))

(* How many requests of the trace precede its first request that is        *)
(* neither a login nor a verify.                                           *)
AuthPrefixLen(t) ==
  CHOOSE n \in 0..Len(t) :
    /\ \A i \in 1..n : t[i] \in AuthKinds
    /\ n = Len(t) \/ t[n + 1] \notin AuthKinds

RenewalPcs == {"login", "loginWait", "store", "verify", "verifyWait"}

StillValid(e) == e # NoExpiry /\ e > now

(***************************************************************************)
(* C1.  An operation that starts on a client whose expiry is unset or not  *)
(* after the clock sends exactly one login and then exactly one verify     *)
(* before its dependent request: the requests that precede the dependent   *)
(* request are never more than <<login, verify>>, and are exactly that     *)
(* once the dependent request has been sent.                               *)
(***************************************************************************)
C1_ExactlyOneLoginVerify ==
  \A c \in Threads :
    (op[c] \in AllOps \ {"login"} /\ at0[c].stale) =>
      LET t == trace[c]
          n == AuthPrefixLen(t)
          pre == SubSeq(t, 1, n)
      IN  /\ IsPrefix(pre, << "login", "verify" >>)
          /\ (n < Len(t) => pre = << "login", "verify" >>)

(***************************************************************************)
(* C2.  Every request other than /login (verify, device request, realtime  *)
(* datagram) leaves while the stored expiry is strictly after the clock.   *)
(***************************************************************************)
C2_NoExpiredSend ==
  \A c \in Threads :
    wire[c].kind \in {"verify", "http", "udp"} => wire[c].valid

(***************************************************************************)
(* C3.  After a login whose verify request the device refused, the session *)
(* is not treated as authenticated: an ensure_token that finds the refused *)
(* token installed renews it, and no dependent request carries it.         *)
(***************************************************************************)
C3_RefusedTokenNotUsed ==
  \A c \in Threads :
    /\ (pc[c] = "check" /\ depth[c] = 0 /\ header \in rejected) => ~StillValid(expires)
    /\ wire[c].kind \in {"http", "udp"} => wire[c].tok \notin rejected

(***************************************************************************)
(* C4.  A successful logout clears the stored token; whenever no token is  *)
(* stored, the ensure_token that runs next renews the session; the token   *)
(* accessor never returns an absent token.                                 *)
(***************************************************************************)
C4_LogoutInvalidates ==
  \A c \in Threads :
    /\ (op[c] = "logout" /\ pc[c] = "done" /\ result[c] = "ok") => _token = NoToken
    /\ (pc[c] = "check" /\ depth[c] = 0 /\ _token = NoToken) => ~StillValid(expires)
    /\ (op[c] = "token" /\ pc[c] = "done" /\ result[c] = "ok") => ret[c] # NoToken

(***************************************************************************)
(* C5.  While the expiry stored when an operation started is strictly      *)
(* after the clock, the operation (ensure_token, a token read, a device    *)
(* operation, a length read, send_frame) sends no login and no verify, the *)
(* stored token, header and expiry stay what they were, the token it       *)
(* returns is the cached one and every request it sends carries it.        *)
(***************************************************************************)
ReuseOps == DeviceOps \cup {"ensure_token", "token", "length", "send_frame"}

C5_ValidTokenReused ==
  \A c \in Threads :
    (op[c] \in ReuseOps /\ StillValid(at0[c].expires)) =>
      /\ pc[c] \notin RenewalPcs
      /\ Kinds(trace[c]) \cap AuthKinds = {}
      /\ _token = at0[c].token
      /\ header = at0[c].header
      /\ expires = at0[c].expires
      /\ (op[c] = "token" /\ pc[c] = "done") => (result[c] = "ok" /\ ret[c] = at0[c].token)
      /\ wire[c].kind = "http" => wire[c].tok = at0[c].header
      /\ wire[c].kind = "udp" => wire[c].tok = at0[c].token

(* A device operation and a datagram that reused the cached token.         *)
C5_Witness ==
  \E c \in Threads :
    /\ op[c] = "send_frame"
    /\ pc[c] = "done"
    /\ result[c] = "ok"
    /\ StillValid(at0[c].expires)
    /\ at0[c].length = NoLength
    /\ trace[c] = << "gestalt", "udp" >>

Count(t, k) == Cardinality({ i \in 1..Len(t) : t[i] = k })

Mismatch(c) ==
  /\ op[c] = "send_frame"
  /\ pc[c] = "done"
  /\ _length # NoLength
  /\ Len(frame[c]) # _length

C7_RejectedBeforeAnyIO ==
  \A c \in Threads :
    Mismatch(c) => (result[c] = "ValueError" /\ trace[c] = << >>)

(***************************************************************************)
(* C7 amended.  A send_frame whose frame length differs from the LED count *)
(* (shorter or longer) raises ValueError and sends no datagram.  When the  *)
(* LED count was cached at the call it has sent nothing at all; when it    *)
(* was not, it has sent the device-details request, preceded only by the   *)
(* login and verify requests of a renewal.                                 *)
(***************************************************************************)
C7_RejectedNoDatagram ==
  \A c \in Threads :
    Mismatch(c) =>
      /\ result[c] = "ValueError"
      /\ "udp" \notin Kinds(trace[c])
      /\ datagram[c] = NoDatagram
      /\ at0[c].length # NoLength => trace[c] = << >>
      /\ at0[c].length = NoLength =>
           /\ Len(trace[c]) >= 1
           /\ trace[c][Len(trace[c])] = "gestalt"
           /\ \A i \in 1..(Len(trace[c]) - 1) : trace[c][i] \in AuthKinds

(* A frame longer than the cached LED count was rejected.                  *)
C7_Witness ==
  \E c \in Threads :
    /\ Mismatch(c)
    /\ at0[c].length # NoLength
    /\ Len(frame[c]) > _length
    /\ result[c] = "ValueError"

(***************************************************************************)
(* C8.  No duplicate concurrent renewal: two callers that run ensure_token *)
(* or a device operation never both have a login request under way (sent   *)
(* and not yet stored) at the same time.                                   *)
(***************************************************************************)
C8_NoDuplicateRenewal ==
  \A c1, c2 \in Threads :
    c1 # c2 => ~(pc[c1] \in {"loginWait", "store"} /\ pc[c2] \in {"loginWait", "store"})

(***************************************************************************)
(* C9.  The movie command rejects a buffer whose length is not divisible   *)
(* by 3 x LED count before it sends set-mode, set-movie-config or upload,  *)
(* and a buffer of 3 x LED count bytes is configured as one frame.         *)
(***************************************************************************)
MovieRequests == {"led/mode", "led/movie/config", "led/movie/full"}

C9_MovieSizeChecked ==
  \A c \in Threads :
    (op[c] = "main" /\ movie[c] # NoFile /\ _length # NoLength) =>
      /\ movie[c] % (3 * _length) # 0 =>
           /\ Kinds(trace[c]) \cap MovieRequests = {}
           /\ pc[c] = "done" => result[c] # "ok"
      /\ (movie[c] = 3 * _length /\ "led/movie/config" \in Kinds(trace[c])) =>
           params[c].frames_number = 1

(***************************************************************************)
(* C10.  A send_frame of exactly LED-count triples sends one datagram to   *)
(* port 7777: the byte 0x01, the base64-decoded token, one byte equal to   *)
(* the LED count, then R, G, B of each triple in LED order; its length is  *)
(* 1 + len(decoded token) + 1 + 3 x LED count, and cutting the payload     *)
(* back into triples gives the frame.                                      *)
(***************************************************************************)
SplitTriples(p) ==
  [i \in 1..(Len(p) \div 3) |-> << p[3 * i - 2], p[3 * i - 1], p[3 * i] >>]

(* base64 of "ABC", "AB" and "A".                                          *)
B64Vectors ==
  /\ b64decode(<< "Q", "U", "J", "D" >>) = << 65, 66, 67 >>
  /\ b64decode(<< "Q", "U", "I", "=" >>) = << 65, 66 >>
  /\ b64decode(<< "Q", "Q", "=", "=" >>) = << 65 >>

C10_DatagramLayout ==
  /\ B64Vectors
  /\ \A c \in Threads :
       (op[c] = "send_frame" /\ pc[c] = "done" /\ result[c] = "ok") =>
         LET d == datagram[c].bytes
             tokb == b64decode(TokenText(ret[c]))
             k == Len(tokb)
             N == Len(frame[c])
         IN  /\ wire[c].kind = "udp"
             /\ Count(trace[c], "udp") = 1
             /\ datagram[c].port = 7777
             /\ ret[c] = _token
             /\ N = _length
             /\ Len(d) = 1 + k + 1 + 3 * N
             /\ d[1] = 1
             /\ SubSeq(d, 2, k + 1) = tokb
             /\ d[k + 2] = N
             /\ \A i \in 1..N : \A j \in 1..3 :
                  d[k + 2 + 3 * (i - 1) + j] = frame[c][i][j]
             /\ SplitTriples(SubSeq(d, k + 3, Len(d))) = frame[c]

(* A frame of two LEDs went out.                                           *)
C10_Witness ==
  \E c \in Threads :
    /\ op[c] = "send_frame"
    /\ pc[c] = "done"
    /\ result[c] = "ok"
    /\ Len(frame[c]) = 2
    /\ Len(datagram[c].bytes) > 8

(***************************************************************************)
(* C11.  A login that succeeds at time T with ttl s stores the expiry      *)
(* T + s, and the check of ensure_token at time t starts a renewal exactly *)
(* when the expiry is unset or t >= T + s: a renewal at the expiry and     *)
(* after it, none before it.                                               *)
(***************************************************************************)
C11_ExpiryBoundary ==
  [][\A c \in Threads :
       /\ (LoginStore(c) /\ r[c].ttl # MissingTTL) => expires' = now + r[c].ttl
       /\ Check(c) =>
            (pc'[c] = "login" <=> (expires = NoExpiry \/ now >= expires))]_vars

(* A check made at the very instant of a non-zero expiry started a renewal:*)
(* the clock only advances, so a renewal under way at now = expires was     *)
(* started by a check at that instant.                                      *)
C11_Witness ==
  \E c \in Threads :
    /\ pc[c] = "login"
    /\ expires # NoExpiry
    /\ expires > 0
    /\ now = expires

(***************************************************************************)
(* C12.  No /login request carries an X-Auth-Token header, and every other *)
(* HTTP request carries the token that is stored when it leaves.           *)
(***************************************************************************)
C12_LoginWithoutHeader ==
  \A c \in Threads :
    /\ wire[c].kind = "login" => wire[c].tok = NoHeader
    /\ wire[c].kind \in {"verify", "http"} =>
         (wire[c].tok # NoHeader /\ wire[c].tok = _token)

(***************************************************************************)
(* C13.  The LED count is discovered once and cached: a length read that   *)
(* succeeds stores the count it returns; once a count is stored, the       *)
(* length accessor sends no device-details request and the stored count    *)
(* never changes for that client, whatever count the device reports later; *)
(* a details request of the accessor that fails leaves the cache unset,    *)
(* and a read that finds it unset fetches.                                 *)
(***************************************************************************)
C13_LengthCachedOnce ==
  [][/\ (_length # NoLength /\ _length' # _length) =>
          (\E c \in Threads : op[c] # "main" /\ op'[c] = "main")
     /\ \A c \in Threads :
       /\ (phase'[c] = "length" /\ pc'[c] \notin {"idle", "done"}) => _length' = NoLength
       /\ (op'[c] = "length" /\ pc'[c] = "done" /\ result'[c] = "ok") =>
            (_length' # NoLength /\ ret'[c] = _length')
       /\ (phase[c] = "length" /\ pc[c] = "wait" /\ pc'[c] = "done" /\ result'[c] = "HTTPError") =>
            _length' = NoLength
       /\ (StartLength(c) /\ _length = NoLength) =>
            (pc'[c] = "check" /\ phase'[c] = "length" /\ req'[c] = "gestalt")
       /\ (StartLength(c) /\ _length # NoLength) =>
            (pc'[c] = "done" /\ ret'[c] = _length /\ trace'[c] = << >>)]_vars

(* The device reported, to a get_details call, a count that differs from   *)
(* the cached one, and the cache kept its value.                           *)
C13_Witness ==
  \E c \in Threads :
    /\ op[c] = "get_details"
    /\ pc[c] = "done"
    /\ result[c] = "ok"
    /\ at0[c].length # NoLength
    /\ ret[c] # at0[c].length
    /\ _length = at0[c].length

(***************************************************************************)
(* C14.  The count byte is never wrapped or truncated: for a device whose  *)
(* LED count exceeds 255 a send_frame that gets as far as building the     *)
(* datagram raises an error and sends no datagram, and every datagram sent *)
(* has a count byte in 0..255 equal to the LED count.                      *)
(***************************************************************************)
C14_CountByteNotWrapped ==
  \A c \in Threads :
    /\ (op[c] = "send_frame" /\ pc[c] = "done" /\ _length > 255) =>
         /\ result[c] # "ok"
         /\ datagram[c] = NoDatagram
         /\ "udp" \notin Kinds(trace[c])
    /\ datagram[c] # NoDatagram =>
         LET d == datagram[c].bytes
             k == Len(b64decode(TokenText(ret[c])))
         IN  /\ d[k + 2] \in 0..255
             /\ d[k + 2] = _length
             /\ \A i \in 1..Len(d) : d[i] \in 0..255

(* A frame of 256 triples for a device of 256 LEDs passed the length check, *)
(* obtained the token, and was refused when the header was built.           *)
C14_Witness ==
  \E c \in Threads :
    /\ op[c] = "send_frame"
    /\ pc[c] = "done"
    /\ _length = 256
    /\ Len(frame[c]) = 256
    /\ ret[c] # NoToken
    /\ result[c] = "ValueError"

(***************************************************************************)
(* C15.  For a movie buffer of 3 x N x F bytes and LED count N >= 1, the    *)
(* movie command builds, before its first movie request, the config with   *)
(* leds_number = N and frames_number = F, and that config is the one that   *)
(* is sent.                                                                *)
(***************************************************************************)
C15_MovieConfig ==
  \A c \in Threads :
    (/\ op[c] = "main"
     /\ movie[c] # NoFile
     /\ _length # NoLength
     /\ movie[c] % (3 * _length) = 0
     /\ phase[c] \in {"mode", "config", "upload"}) =>
      /\ params[c].leds_number = _length
      /\ 3 * _length * params[c].frames_number = movie[c]

(* A buffer of several frames was configured and uploaded.                 *)
C15_Witness ==
  \E c \in Threads :
    /\ op[c] = "main"
    /\ pc[c] = "done"
    /\ result[c] = "ok"
    /\ movie[c] # NoFile
    /\ params[c].frames_number >= 2
    /\ movie[c] = 3 * _length * params[c].frames_number
    /\ "led/movie/config" \in Kinds(trace[c])

(***************************************************************************)
(* C16.  Every subcommand of the command line (network, firmware, details, *)
(* token, name, mode, mqtt, movie, with or without its option) is          *)
(* dispatched: main never ends one of them with 'Unknown command' or with  *)
(* an error of the dispatch itself, and when its requests succeed it has a *)
(* result to print.                                                        *)
(***************************************************************************)
C16_EverySubcommandDispatched ==
  \A c \in Threads :
    (op[c] = "main" /\ pc[c] = "done" /\ cmd[c].command \in Subcommands) =>
      result[c] \notin {"Unknown command", "AttributeError"}

(***************************************************************************)
(* C17.  A device operation sends, once ensure_token has returned, exactly *)
(* one HTTP request, to its own endpoint: besides the login and verify     *)
(* requests of a renewal its requests are that one request, which is its   *)
(* last.  When the response is a failure, the operation raises at once,    *)
(* sends nothing more, and the stored token, header, expiry and LED count  *)
(* are what they were when the response arrived.                           *)
(***************************************************************************)
C17_OneRequestNoRetry ==
  [][\A c \in Threads :
       /\ op'[c] \in DeviceOps =>
            LET t == trace'[c]
                e == Endpoint(op'[c])
            IN  /\ Count(t, e) <= 1
                /\ \A i \in 1..Len(t) : t[i] \in AuthKinds \cup {e}
                /\ Count(t, e) = 1 => t[Len(t)] = e
                /\ pc'[c] = "wait" => (depth'[c] = 0 /\ Count(t, e) = 1)
                /\ (pc'[c] = "done" /\ result'[c] = "ok") => Count(t, e) = 1
       /\ (op[c] \in DeviceOps /\ pc[c] = "wait" /\ result'[c] = "HTTPError") =>
            /\ pc'[c] = "done"
            /\ trace'[c] = trace[c]
            /\ UNCHANGED << _token, header, expires, _length >>
       /\ (op[c] \in DeviceOps /\ pc[c] = "done") =>
            (trace'[c] = trace[c] \/ trace'[c] = << >>)]_vars

(* A set_mode on a valid session was answered with an error status.        *)
C17_Witness ==
  \E c \in Threads :
    /\ op[c] = "set_mode"
    /\ pc[c] = "done"
    /\ result[c] = "HTTPError"
    /\ trace[c] = << "led/mode" >>
    /\ _token = at0[c].token
    /\ _token # NoToken

IsMovieStep(e) == e \in MovieRequests

MovieSteps == << "led/mode", "led/movie/config", "led/movie/full" >>

(***************************************************************************)
(* C18.  The movie command sends its device requests in the order set-mode,*)
(* set-movie-config, upload-movie: at every moment the movie requests sent *)
(* so far are the first ones of that list, a command that succeeds has     *)
(* sent all three, and a command that fails has sent nothing after the     *)
(* request that failed (no later step, no compensating request).           *)
(***************************************************************************)
C18_MovieOrderNoRollback ==
  /\ [](\A c \in Threads :
          (op[c] = "main" /\ movie[c] # NoFile) =>
            LET t == trace[c]
                steps == SelectSeq(t, IsMovieStep)
            IN  /\ IsPrefix(steps, MovieSteps)
                /\ \A i \in 1..Len(t) :
                     t[i] \in AuthKinds \cup MovieRequests \cup {"gestalt"}
                /\ \A i, j \in 1..Len(t) :
                     (t[i] = "gestalt" /\ t[j] \in MovieRequests) => i < j
                /\ (pc[c] = "done" /\ result[c] = "ok") => steps = MovieSteps)
  /\ [][\A c \in Threads :
          (op[c] = "main" /\ movie[c] # NoFile) =>
            /\ (pc[c] \in {"loginWait", "verifyWait", "wait"} /\ result'[c] # "none"
                 /\ result'[c] # "ok") =>
                 (pc'[c] = "done" /\ trace'[c] = trace[c])
            /\ pc[c] = "done" => (trace'[c] = trace[c] \/ trace'[c] = << >>)]_vars

(* The upload failed after set-mode and set-movie-config had succeeded: the *)
(* command ended there.                                                     *)
C18_Witness ==
  \E c \in Threads :
    /\ op[c] = "main"
    /\ movie[c] # NoFile
    /\ pc[c] = "done"
    /\ result[c] = "HTTPError"
    /\ trace[c][Len(trace[c])] = "led/movie/full"
    /\ SelectSeq(trace[c], IsMovieStep) = MovieSteps

(***************************************************************************)
(* C19.  A login that fails (error status, or a body without the token or  *)
(* without the ttl) leaves the stored token, the X-Auth-Token header and   *)
(* the stored expiry as they were before the call.                         *)
(***************************************************************************)
C19_FailedLoginKeepsSession ==
  \A c \in Threads :
    (op[c] = "login" /\ pc[c] = "done" /\ result[c] # "ok") =>
      /\ _token = at0[c].token
      /\ header = at0[c].header
      /\ expires = at0[c].expires

(***************************************************************************)
(* C20.  After a successful logout no request that the client sends other  *)
(* than a /login (verify, device request, realtime datagram) carries the   *)
(* token that was logged out.  login stores the token and the header       *)
(* together, logout clears the token alone and a new client has neither:   *)
(* the header is a logged-out token exactly while no token is stored.      *)
(***************************************************************************)
C20_LoggedOutTokenNotSent ==
  \A c \in Threads :
    (wire[c].kind \in {"verify", "http", "udp"} /\ _token = NoToken) =>
      wire[c].tok = NoHeader

=============================================================================
